---- MODULE Spec2Model ----
(***************************************************************************)
(* The worker runtime of crates/base/src/deno_runtime.rs: a constructed    *)
(* DenoRuntime handle and DenoRuntime::run, which drives the guest's root  *)
(* module and event loop under tokio::time::timeout.                       *)
(*                                                                         *)
(* Time is a discrete clock (milliseconds). The guest is the external      *)
(* JsRuntime: what its event loop and its root-module evaluation answer,   *)
(* and when, is drawn in Init; run sees it only when it polls.             *)
(***************************************************************************)
EXTENDS Integers, Sequences, FiniteSets, TLC

\* Largest worker_timeout_ms drawn for a user worker.
MaxTimeout == 2
\* Largest memory_limit_mb drawn for a user worker.
MaxMemoryMb == 2
\* The clock runs one millisecond past the largest deadline.
MaxTime == MaxTimeout + 1

(***************************************************************************)
(* WorkerRuntimeOpts: the role of the worker and, for a user worker, its   *)
(* parameters (the fields of the other roles are not read).                *)
(***************************************************************************)
\* Option<T>: None, or Some(x).
None == <<>>

Some(x) == <<x>>

\* The execution keys (Option<Uuid>) drawn for a user worker.
Keys == {None, Some(1)}

UserWorkerRuntimeOpts ==
    [tag : {"UserWorker"},
     worker_timeout_ms : 0..MaxTimeout,
     memory_limit_mb : 1..MaxMemoryMb,
     events_msg_tx : BOOLEAN,
     key : Keys,
     net_access_disabled : {FALSE},
     allow_remote_modules : {TRUE}]

\* The user workers over every value of net_access_disabled and
\* allow_remote_modules too.
UserParameters ==
    [tag : {"UserWorker"},
     worker_timeout_ms : 0..MaxTimeout,
     memory_limit_mb : 1..MaxMemoryMb,
     events_msg_tx : BOOLEAN,
     key : Keys,
     net_access_disabled : BOOLEAN,
     allow_remote_modules : BOOLEAN]

WorkerRuntimeOpts ==
    UserWorkerRuntimeOpts \cup
    [tag : {"MainWorker", "EventsWorker"},
     worker_timeout_ms : {0},
     memory_limit_mb : {0},
     events_msg_tx : {FALSE},
     key : {None},
     net_access_disabled : {FALSE},
     allow_remote_modules : {TRUE}]

is_user_worker(c) == c.tag = "UserWorker"

is_main_worker(c) == c.tag = "MainWorker"

is_events_worker(c) == c.tag = "EventsWorker"

(***************************************************************************)
(* The guest program, as run observes it through JsRuntime:                *)
(*   loop     what run_event_loop answers: "ok", "err", or "pending" (the  *)
(*            loop never becomes idle);                                    *)
(*   loop_at  the time, from the start of run, at which it answers;        *)
(*   mod      what the evaluation receiver holds once the loop is done:    *)
(*            "ok", "err" (rejected), "dropped" (sender dropped) or        *)
(*            "pending" (the top-level promise never settles);             *)
(*   err      the error the guest raises, where it raises one;             *)
(*   alloc_mb the buffer memory the root module allocates, in MiB.         *)
(***************************************************************************)
TypeErrorMsg == <<"TypeError: ", "Deno.readFileSync is not a function">>

TerminatedMsg == <<"Uncaught Error: ", "execution terminated">>

RangeErrorMsg == <<"RangeError: ", "Array buffer allocation failed">>

GuestErrors == {TypeErrorMsg, TerminatedMsg}

Guests ==
    [loop : {"ok", "err", "pending"},
     loop_at : 0..MaxTime,
     mod : {"ok", "err", "dropped", "pending"},
     err : GuestErrors,
     alloc_mb : 0..(MaxMemoryMb + 1)]

(***************************************************************************)
(* Result<(), Error>: the error is its message, a sequence of fragments    *)
(* (anyhow!'s format string followed by the formatted error).              *)
(***************************************************************************)
Ok == [ok |-> TRUE, msg |-> <<>>]

Err(m) == [ok |-> FALSE, msg |-> m]

WallClockMsg == <<"wall clock duration reached">>

EventLoopPrefix == <<"event loop error: ">>

SenderDroppedMsg == <<"mod result sender dropped">>

\* The scheduler's error handed on as it is, like a guest error.
EventLoopError_unwrapped(e) == Err(e)

\* anyhow!("event loop error: {}", err)
EventLoopError(e) == Err(EventLoopPrefix \o e)

(***************************************************************************)
(* Heap ceiling: DenoRuntime::new gives a user worker CreateParams with    *)
(* the heap limit and an array-buffer allocator capped at the same number  *)
(* of bytes; the other roles get none.                                     *)
(***************************************************************************)
mib_to_bytes(mib) == mib * 1024 * 1024

\* No role is given a heap ceiling.
create_params_none(c) == [some |-> FALSE, memory_limit |-> 0]

create_params(c) ==
    IF is_user_worker(c)
    THEN [some |-> TRUE, memory_limit |-> mib_to_bytes(c.memory_limit_mb)]
    ELSE [some |-> FALSE, memory_limit |-> 0]

\* The capped allocator refuses a request that would pass its limit.
custom_allocator(params, bytes) == ~params.some \/ bytes <= params.memory_limit

\* The evaluation result the guest delivers: a refused allocation is thrown
\* in the guest as a RangeError and rejects the root module's evaluation.
mod_result(c, g) ==
    IF ~custom_allocator(create_params(c), mib_to_bytes(g.alloc_mb))
    THEN [kind |-> "err", err |-> RangeErrorMsg]
    ELSE [kind |-> g.mod, err |-> g.err]

(***************************************************************************)
(* Durations and the deadline of tokio::time::timeout.                     *)
(***************************************************************************)
DurationMAX == [max |-> TRUE, ms |-> 0]

from_millis(ms) == [max |-> FALSE, ms |-> ms]

\* The configured timeout applied whatever the role.
duration_any_role(c) == from_millis(c.worker_timeout_ms)

\* The role's timeout never read: every role keeps Duration::MAX.
duration_never(c) == DurationMAX

duration(c) ==
    IF is_user_worker(c) THEN from_millis(c.worker_timeout_ms) ELSE DurationMAX

\* Instant::now() + duration; Duration::MAX never elapses.
elapsed(d, started, t) == ~d.max /\ t >= started + d.ms

VARIABLES
    conf,          \* self.conf
    guest,         \* the guest program behind self.js_runtime
    op_state,      \* the keys put into js_runtime.op_state()
    pc,            \* "constructed", "running", "done"
    now,           \* the clock
    started,       \* the time tokio::time::timeout was created
    fut,           \* where the evaluation future is: "unpolled", "event_loop", "mod_result", "ready"
    mod_consulted, \* mod_result_rx has been awaited
    heap_breach,   \* the allocator has refused a guest allocation
    force_quit,    \* an external force-quit signal has been delivered
    reported,      \* the results run has returned, in order
    opts,          \* the WorkerContextInitOpts given to DenoRuntime::new
    ca_store_env,  \* DENO_TLS_CA_STORE in the process environment
    main_module_url, \* main_module_url of DenoRuntime::new
    root_cert_store, \* root_cert_store of DenoRuntime::new
    calls,         \* the calls made on the collaborators and the store, in order
    env_store,     \* the sb_env::EnvVars entry of the store
    new_result,    \* what DenoRuntime::new returned, or the panic that ended it
    env_op,        \* the guest's last Deno.env call, its answer, and whether a
                   \* Deno.env.set was attempted up to it
    spawn_op,      \* the guest's last attempt to spawn a subprocess
    peer,          \* what an earlier DenoRuntime::new of the same process, given
                   \* an equal request, came to
    self           \* the DenoRuntime that DenoRuntime::new returned

\* The state of the construction.
nvars == <<opts, ca_store_env, main_module_url, root_cert_store, env_store,
           new_result, env_op, spawn_op, peer, self>>

vars == <<conf, guest, op_state, pc, now, started, fut, mod_consulted,
          heap_breach, force_quit, reported, calls, nvars>>

(***************************************************************************)
(* WorkerContextInitOpts, the request DenoRuntime::new is given:           *)
(*   env_vars          the supplied environment mapping;                   *)
(*   events_rx         the inbound event receiver is Some;                 *)
(*   maybe_eszip       a prebuilt bundle is Some;                          *)
(*   maybe_module_code inline source is Some;                              *)
(*   maybe_entrypoint  "None", or Some of a file URL ("file"), of a URL    *)
(*                     that is no file path ("https"), or of a string      *)
(*                     that is no URL ("malformed").                       *)
(***************************************************************************)
EnvNames == {"Supa_Test", "SB_EXECUTION_ID"}

EnvValues == {"Supa_Value"}

EmptyEnv == [x \in {} |-> "Supa_Value"]

EnvMaps == UNION {[S -> EnvValues] : S \in SUBSET EnvNames}

Entrypoints == {"None", "file", "https", "malformed"}

\* The confs a construction is followed through: the largest timeout and
\* memory limit, every role, key and events channel.
ConstructionConfs ==
    {c \in WorkerRuntimeOpts :
        is_user_worker(c) =>
            c.worker_timeout_ms = MaxTimeout /\ c.memory_limit_mb = MaxMemoryMb}

WorkerContextInitOpts ==
    [conf : ConstructionConfs,
     env_vars : EnvMaps,
     events_rx : BOOLEAN,
     maybe_eszip : BOOLEAN,
     maybe_module_code : BOOLEAN,
     maybe_entrypoint : Entrypoints]

\* The request of the tests' create_runtime for a conf: no bundle, no inline
\* source, no entrypoint, no variables.
create_runtime(c) ==
    [conf |-> c,
     env_vars |-> EmptyEnv,
     events_rx |-> is_events_worker(c),
     maybe_eszip |-> FALSE,
     maybe_module_code |-> FALSE,
     maybe_entrypoint |-> "None"]

(***************************************************************************)
(* The value of DENO_TLS_CA_STORE in the process environment: unset, or    *)
(* the segments between its commas.                                        *)
(***************************************************************************)
Unset == [set |-> FALSE, segs |-> <<>>]

Var(segs) == [set |-> TRUE, segs |-> segs]

CaStoreEnvs ==
    {Unset, Var(<<"">>), Var(<<"mozilla">>), Var(<<"system">>),
     Var(<<"system", " mozilla">>), Var(<<"mozilla", "system">>), Var(<<"bogus">>)}

\* str::trim
trim(str) == IF str = " mozilla" THEN "mozilla" ELSE str

RECURSIVE split_trim_filter(_)
\* .split(',').map(|s| s.trim().to_string()).filter(|s| !s.is_empty())
split_trim_filter(segs) ==
    IF segs = <<>> THEN <<>>
    ELSE LET t == trim(Head(segs)) IN
         (IF t = "" THEN <<>> ELSE <<t>>) \o split_trim_filter(Tail(segs))

ca_stores(e) == IF e.set THEN split_trim_filter(e.segs) ELSE <<"mozilla">>

\* What the store holds: the bundled default set, the platform's certificates.
EmptyStore == {}

RECURSIVE fill_root_cert_store(_, _, _)
\* for store in ca_stores.iter() { match store.as_str() { ... } }
\* native_ok: load_native_certs and the adding of its certificates succeed.
fill_root_cert_store(stores, acc, native_ok) ==
    IF stores = <<>> THEN [kind |-> "Ok", store |-> acc, msg |-> <<>>]
    ELSE CASE Head(stores) = "mozilla" ->
                  fill_root_cert_store(Tail(stores), {"mozilla"}, native_ok)
           [] Head(stores) = "system" ->
                  IF native_ok
                  THEN fill_root_cert_store(Tail(stores), acc \cup {"native"}, native_ok)
                  ELSE [kind |-> "panic", store |-> acc,
                        msg |-> <<"could not load platform certs">>]
           [] OTHER ->
                  [kind |-> "Err", store |-> acc,
                   msg |-> <<"Unknown certificate store \"", Head(stores),
                             "\" specified (allowed: \"system,mozilla\")">>]

(***************************************************************************)
(* The code source of the bundle.                                          *)
(***************************************************************************)
is_some_entry_point(o) == o.maybe_entrypoint # "None"

\* Inline source used also when an entrypoint is given.
only_module_code_any_entrypoint(o) == o.maybe_module_code /\ ~o.maybe_eszip

only_module_code(o) ==
    o.maybe_module_code /\ ~o.maybe_eszip /\ ~is_some_entry_point(o)

\* The bundling call made although a bundle was supplied.
eszip_calls_always(o) ==
    <<[fn |-> "load_import_map", arg |-> <<>>],
      [fn |-> "generate_binary_eszip",
       arg |-> IF only_module_code(o) THEN <<"maybe_module_code">> ELSE <<"None">>]>>

\* let eszip = if let Some(eszip_payload) = maybe_eszip { ... } else { ... }:
\* the calls made for the bundle.
eszip_calls(o) ==
    IF o.maybe_eszip THEN <<>>
    ELSE <<[fn |-> "load_import_map", arg |-> <<>>],
           [fn |-> "generate_binary_eszip",
            arg |-> IF only_module_code(o) THEN <<"maybe_module_code">> ELSE <<"None">>]>>

\* The bundle handed to the module loader, by where its code comes from.
eszip_kind(o) ==
    IF o.maybe_eszip THEN "maybe_eszip"
    ELSE IF only_module_code(o) THEN "maybe_module_code"
    ELSE "main_module_url_file_path"

\* main_module_url: base_url.join("index.ts"), or the parsed entrypoint.
main_module_url_of(o) ==
    IF is_some_entry_point(o) THEN o.maybe_entrypoint ELSE "index.ts"

(***************************************************************************)
(* Bootstrap and state injection.                                          *)
(***************************************************************************)
bool_to_string(b) == IF b THEN "true" ELSE "false"

\* Both flags set from is_user_worker.
bootstrap_script_user_twice(c) ==
    <<"TARGET", bool_to_string(is_user_worker(c)),
      bool_to_string(is_user_worker(c)), "GIT_V_TAG">>

\* format!("globalThis.bootstrapSBEdge({}, {}, {}, '{}')", ...): the arguments.
bootstrap_script(c) ==
    <<"TARGET", bool_to_string(is_user_worker(c)),
      bool_to_string(is_events_worker(c)), "GIT_V_TAG">>

\* Uuid::to_string
uuid_to_string(u) ==
    IF u = 1 THEN "00000000-0000-0000-0000-000000000001" ELSE "ffffffff-ffff-ffff-ffff-ffffffffffff"

\* key.map_or("".to_string(), |k| k.to_string())
execution_id(c) == IF c.key = None THEN "" ELSE uuid_to_string(c.key[1])

\* HashMap::insert
insert(m, k, v) == [x \in DOMAIN m \cup {k} |-> IF x = k THEN v ELSE m[x]]

\* SB_EXECUTION_ID inserted for every role.
guest_env_vars_every_role(o) ==
    insert(o.env_vars, "SB_EXECUTION_ID", execution_id(o.conf))

\* The supplied value of SB_EXECUTION_ID kept when there is one.
guest_env_vars_keep_supplied(o) ==
    IF is_user_worker(o.conf) /\ "SB_EXECUTION_ID" \notin DOMAIN o.env_vars
    THEN insert(o.env_vars, "SB_EXECUTION_ID", execution_id(o.conf))
    ELSE o.env_vars

\* let mut env_vars = env_vars.clone(); ...: the snapshot put into the store.
guest_env_vars(o) ==
    IF is_user_worker(o.conf)
    THEN insert(o.env_vars, "SB_EXECUTION_ID", execution_id(o.conf))
    ELSE o.env_vars

put(key) == [fn |-> "put", arg |-> <<key>>]

\* The sender put into the store without the execution metadata.
new_puts_sender_alone(c) ==
    (IF is_events_worker(c)
     THEN <<put("UnboundedReceiver<WorkerEventWithMetadata>")>> ELSE <<>>)
    \o (IF is_user_worker(c) /\ c.events_msg_tx
        THEN <<put("UnboundedSender<WorkerEventWithMetadata>")>> ELSE <<>>)
    \o <<put("EnvVars")>>

\* The puts of DenoRuntime::new, in their order.
new_puts(c) ==
    (IF is_events_worker(c)
     THEN <<put("UnboundedReceiver<WorkerEventWithMetadata>")>> ELSE <<>>)
    \o (IF is_user_worker(c) /\ c.events_msg_tx
        THEN <<put("UnboundedSender<WorkerEventWithMetadata>"), put("EventMetadata")>>
        ELSE <<>>)
    \o <<put("EnvVars")>>

\* The pool-dispatch sender put for every role.
run_puts_every_role(c) ==
    <<put("UnboundedReceiver<UnixStream>"), put("UnboundedSender<UserWorkerMsgs>")>>

\* The environment snapshot put a second time at run.
run_puts_env_again(c) ==
    <<put("UnboundedReceiver<UnixStream>"), put("EnvVars")>>

\* The puts of DenoRuntime::run, in their order.
run_puts(c) ==
    <<put("UnboundedReceiver<UnixStream>")>>
    \o (IF is_main_worker(c) THEN <<put("UnboundedSender<UserWorkerMsgs>")>> ELSE <<>>)

\* The keys a sequence of puts leaves in the store.
keys_of(puts) == {puts[i].arg[1] : i \in DOMAIN puts}

\* The calls of a construction in which nothing fails, in their order.
new_calls(o) ==
    eszip_calls(o)
    \o <<[fn |-> "create_module_loader_for_standalone_from_eszip_kind",
          arg |-> <<eszip_kind(o)>>],
         [fn |-> "JsRuntime::new", arg |-> <<>>],
         [fn |-> "execute_script", arg |-> bootstrap_script(o.conf)]>>
    \o new_puts(o.conf)
    \o <<[fn |-> "load_main_module", arg |-> <<main_module_url_of(o)>>]>>

\* Result<Self, Error> of DenoRuntime::new, or the panic that ended it.
NotReturned == [kind |-> "none", msg |-> <<>>]

OkSelf == [kind |-> "Ok", msg |-> <<>>]

NewErr(m) == [kind |-> "Err", msg |-> m]

Panic(m) == [kind |-> "panic", msg |-> m]

(***************************************************************************)
(* The per-context store after construction.                               *)
(***************************************************************************)
new_op_state(c) == keys_of(new_puts(c))

run_op_state(c) == keys_of(run_puts(c))

\* The store entry of the environment snapshot, absent and put.
NoEnvVars == [put |-> FALSE, vars |-> EmptyEnv]

EnvVars(m) == [put |-> TRUE, vars |-> m]

\* No handle.
NoSelf == [made |-> FALSE, env_vars |-> EmptyEnv]

\* The handle given the snapshot that was put into the store.
Self_with_snapshot(o) == [made |-> TRUE, env_vars |-> guest_env_vars(o)]

\* Ok(Self { js_runtime, main_module_id, env_vars, conf }): env_vars is the
\* mapping of the request, which the store was given a clone of.
Self(o) == [made |-> TRUE, env_vars |-> o.env_vars]

\* No earlier construction.
NoPeer ==
    [made |-> FALSE, certs |-> [kind |-> "none", store |-> {}],
     main_module_url |-> "unset", env_store |-> NoEnvVars]

\* No subprocess asked for yet.
NoSpawnOp == [op |-> "none", err |-> <<>>, spawned |-> FALSE]

\* No Deno.env call made yet.
NoEnvOp ==
    [op |-> "none", key |-> "", result |-> <<>>, err |-> <<>>, after_set |-> FALSE]

Init ==
    /\ conf \in WorkerRuntimeOpts
    /\ guest \in Guests
    /\ op_state = new_op_state(conf)
    /\ pc = "constructed"
    /\ now = 0
    /\ started = 0
    /\ fut = "unpolled"
    /\ mod_consulted = FALSE
    /\ heap_breach = FALSE
    /\ force_quit = FALSE
    /\ reported = <<>>
    /\ opts = create_runtime(conf)
    /\ ca_store_env = Unset
    /\ main_module_url = main_module_url_of(opts)
    /\ root_cert_store = {"mozilla"}
    /\ calls = new_calls(opts)
    /\ env_store = EnvVars(guest_env_vars(opts))
    /\ new_result = OkSelf
    /\ env_op = NoEnvOp
    /\ spawn_op = NoSpawnOp
    /\ peer = NoPeer
    /\ self = Self(opts)

(***************************************************************************)
(* run, up to its first suspension: the run-scoped entries are put into    *)
(* the store, and the evaluation future is wrapped in the timeout.         *)
(***************************************************************************)
Run ==
    /\ pc = "constructed"
    /\ op_state' = op_state \cup run_op_state(conf)
    /\ calls' = calls \o run_puts(conf)
    /\ started' = now
    /\ pc' = "running"
    /\ UNCHANGED <<conf, guest, now, fut, mod_consulted, heap_breach,
                   force_quit, reported, nvars>>

(***************************************************************************)
(* One poll of the evaluation future at time t.                            *)
(***************************************************************************)
Pending(f, consulted) ==
    [ready |-> FALSE, val |-> Ok, fut |-> f, consulted |-> consulted]

Ready(v, consulted) ==
    [ready |-> TRUE, val |-> v, fut |-> "ready", consulted |-> consulted]

\* match mod_result_rx.await { ... }
mod_result_rx(c, g) ==
    LET r == mod_result(c, g) IN
    CASE r.kind = "pending" -> Pending("mod_result", TRUE)
      [] r.kind = "dropped" -> Ready(Err(SenderDroppedMsg), TRUE)
      [] r.kind = "err" -> Ready(Err(r.err), TRUE)
      [] OTHER -> Ready(Ok, TRUE)

\* match js_runtime.run_event_loop(false).await { ... }
run_event_loop(c, g, t) ==
    IF g.loop = "pending" \/ t < g.loop_at
    THEN Pending("event_loop", FALSE)
    ELSE IF g.loop = "err"
         THEN Ready(EventLoopError(g.err), FALSE)
         ELSE mod_result_rx(c, g)

future_poll(c, g, f, t) ==
    IF f = "mod_result" THEN mod_result_rx(c, g) ELSE run_event_loop(c, g, t)

\* A race that lets both sides answer when both are ready at one poll.
timeout_poll_both(inner, late) ==
    (IF inner.ready THEN <<inner.val>> ELSE <<>>)
    \o (IF late THEN <<Err(WallClockMsg)>> ELSE <<>>)

\* tokio::time::timeout: the future is polled first, the deadline after it.
\* The sequence holds what the race returns at this poll (nothing while
\* both are pending).
timeout_poll(inner, late) ==
    IF inner.ready THEN <<inner.val>>
    ELSE IF late THEN <<Err(WallClockMsg)>>
    ELSE <<>>

Poll ==
    /\ pc = "running"
    /\ LET inner == future_poll(conf, guest, fut, now - started)
           out == timeout_poll(inner, elapsed(duration(conf), started, now))
       IN /\ fut' = inner.fut
          /\ mod_consulted' = (mod_consulted \/ inner.consulted)
          /\ heap_breach' =
                 (heap_breach \/
                  ~custom_allocator(create_params(conf), mib_to_bytes(guest.alloc_mb)))
          /\ reported' = reported \o out
          /\ pc' = IF out # <<>> THEN "done" ELSE pc
    /\ calls' = IF fut = "unpolled"
                THEN Append(calls, [fn |-> "mod_evaluate", arg |-> <<>>])
                ELSE calls
    /\ UNCHANGED <<conf, guest, op_state, now, started, force_quit, nvars>>

\* Time passes while run is in progress.
Tick ==
    /\ pc = "running"
    /\ now < MaxTime
    /\ now' = now + 1
    /\ UNCHANGED <<conf, guest, op_state, pc, started, fut, mod_consulted,
                   heap_breach, force_quit, reported, calls, nvars>>

\* An external force-quit signal is delivered while run is in progress.
\* run takes no such input: nothing in it reads the signal.
ForceQuit ==
    /\ pc = "running"
    /\ ~force_quit
    /\ force_quit' = TRUE
    /\ UNCHANGED <<conf, guest, op_state, pc, now, started, fut, mod_consulted,
                   heap_breach, reported, calls, nvars>>

Next == Run \/ Poll \/ Tick \/ ForceQuit

Spec == Init /\ [][Next]_vars

\* A woken task is polled again: the timer wakes it at the deadline, the
\* guest when it has made progress; and the clock advances.
FairSpec == Spec /\ WF_vars(Poll) /\ WF_vars(Tick)

(***************************************************************************)
(* DenoRuntime::new, step by step, from the request to the handle, the     *)
(* error or the panic.                                                     *)
(***************************************************************************)
\* The guests of a construction: the event loop idle at once, every answer
\* of the module's evaluation, one error for a rejected evaluation.
ConstructionGuests ==
    {g \in Guests : /\ g.loop = "ok" /\ g.loop_at = 0 /\ g.alloc_mb = 0
                    /\ g.err = TypeErrorMsg}

NewInit ==
    /\ opts \in WorkerContextInitOpts
    /\ conf = opts.conf
    /\ guest \in ConstructionGuests
    /\ ca_store_env \in CaStoreEnvs
    /\ op_state = {}
    /\ pc = "new"
    /\ now = 0
    /\ started = 0
    /\ fut = "unpolled"
    /\ mod_consulted = FALSE
    /\ heap_breach = FALSE
    /\ force_quit = FALSE
    /\ reported = <<>>
    /\ main_module_url = "unset"
    /\ root_cert_store = EmptyStore
    /\ calls = <<>>
    /\ env_store = NoEnvVars
    /\ new_result = NotReturned
    /\ env_op = NoEnvOp
    /\ spawn_op = NoSpawnOp
    /\ peer = NoPeer
    /\ self = NoSelf

\* What every step of the construction leaves alone.
run_vars == <<conf, guest, now, started, fut, mod_consulted, heap_breach,
              force_quit, reported, opts, ca_store_env, env_op, spawn_op, peer>>

\* A failed step passed over, the handle returned all the same.
Abort_with_handle(r) ==
    /\ pc' = "constructed"
    /\ new_result' = OkSelf
    /\ self' = Self(opts)

\* The construction ends without a handle: ? and bail! return the error,
\* unwrap and expect panic.
Abort(r) ==
    /\ pc' = "failed"
    /\ new_result' = r
    /\ self' = self

Proceed(next) ==
    /\ pc' = next
    /\ new_result' = new_result
    /\ self' = self

\* current_dir()?, base_url.join("index.ts")?, Url::parse(entrypoint)?
NewMainModuleUrl ==
    /\ pc = "new"
    /\ \E current_dir_ok \in BOOLEAN :
          IF ~current_dir_ok
          THEN /\ Abort(NewErr(<<"current_dir">>))
               /\ main_module_url' = main_module_url
          ELSE IF opts.maybe_entrypoint = "malformed"
          THEN /\ Abort(NewErr(<<"relative URL without a base">>))
               /\ main_module_url' = "index.ts"
          ELSE /\ Proceed("eszip")
               /\ main_module_url' = main_module_url_of(opts)
    /\ UNCHANGED <<run_vars, op_state, root_cert_store, calls, env_store>>

\* let eszip = if let Some(eszip_payload) = maybe_eszip { .. } else { .. }
NewEszip ==
    /\ pc = "eszip"
    /\ IF opts.maybe_eszip
       THEN /\ calls' = calls \o eszip_calls(opts)
            /\ Proceed("root_cert_store")
       ELSE \E import_map_ok \in BOOLEAN, eszip_ok \in BOOLEAN :
               IF ~import_map_ok
               THEN /\ calls' = calls \o SubSeq(eszip_calls(opts), 1, 1)
                    /\ Abort(NewErr(<<"load_import_map">>))
               ELSE IF main_module_url # "index.ts" /\ main_module_url # "file"
               THEN /\ calls' = calls \o SubSeq(eszip_calls(opts), 1, 1)
                    /\ Abort(Panic(<<"called Result::unwrap() on an Err value">>))
               ELSE IF ~eszip_ok
               THEN /\ calls' = calls \o eszip_calls(opts)
                    /\ Abort(NewErr(<<"generate_binary_eszip">>))
               ELSE /\ calls' = calls \o eszip_calls(opts)
                    /\ Proceed("root_cert_store")
    /\ UNCHANGED <<run_vars, op_state, main_module_url, root_cert_store, env_store>>

\* The root cert store populated from DENO_TLS_CA_STORE.
NewRootCertStore ==
    /\ pc = "root_cert_store"
    /\ \E native_ok \in BOOLEAN :
          LET r == fill_root_cert_store(ca_stores(ca_store_env), EmptyStore, native_ok)
          IN /\ root_cert_store' = r.store
             /\ CASE r.kind = "Ok" -> Proceed("stdio")
                  [] r.kind = "Err" -> Abort(NewErr(r.msg))
                  [] OTHER -> Abort(Panic(r.msg))
    /\ UNCHANGED <<run_vars, op_state, main_module_url, calls, env_store>>

\* The user worker's stdio opened on /dev/null.
NewStdio ==
    /\ pc = "stdio"
    /\ \E create_ok \in BOOLEAN :
          IF is_user_worker(conf) /\ ~create_ok
          THEN Abort(NewErr(<<"File::create">>))
          ELSE Proceed("module_loader")
    /\ UNCHANGED <<run_vars, op_state, main_module_url, root_cert_store, calls,
                   env_store>>

\* create_module_loader_for_standalone_from_eszip_kind(eszip, ..).await?
NewModuleLoader ==
    /\ pc = "module_loader"
    /\ calls' = Append(calls,
                       [fn |-> "create_module_loader_for_standalone_from_eszip_kind",
                        arg |-> <<eszip_kind(opts)>>])
    /\ \E loader_ok \in BOOLEAN :
          IF loader_ok THEN Proceed("js_runtime")
          ELSE Abort(NewErr(<<"create_module_loader_for_standalone_from_eszip_kind">>))
    /\ UNCHANGED <<run_vars, op_state, main_module_url, root_cert_store, env_store>>

\* JsRuntime::new(runtime_options)
NewJsRuntime ==
    /\ pc = "js_runtime"
    /\ calls' = Append(calls, [fn |-> "JsRuntime::new", arg |-> <<>>])
    /\ Proceed("bootstrap")
    /\ UNCHANGED <<run_vars, op_state, main_module_url, root_cert_store, env_store>>

\* js_runtime.execute_script(.., script).expect("Failed to execute bootstrap script")
NewBootstrap ==
    /\ pc = "bootstrap"
    /\ calls' = Append(calls, [fn |-> "execute_script", arg |-> bootstrap_script(conf)])
    /\ \E script_ok \in BOOLEAN :
          IF script_ok THEN Proceed("op_state")
          ELSE Abort(Panic(<<"Failed to execute bootstrap script">>))
    /\ UNCHANGED <<run_vars, op_state, main_module_url, root_cert_store, env_store>>

\* The block that fills the per-context store.
NewOpState ==
    /\ pc = "op_state"
    /\ IF is_events_worker(conf) /\ ~opts.events_rx
       THEN /\ Abort(Panic(<<"called Option::unwrap() on a None value">>))
            /\ UNCHANGED <<op_state, calls, env_store>>
       ELSE /\ Proceed("load_main_module")
            /\ op_state' = op_state \cup new_op_state(conf)
            /\ calls' = calls \o new_puts(conf)
            /\ env_store' = EnvVars(guest_env_vars(opts))
    /\ UNCHANGED <<run_vars, main_module_url, root_cert_store>>

\* js_runtime.load_main_module(&main_module_url, mod_code).await?, Ok(Self {..})
NewLoadMainModule ==
    /\ pc = "load_main_module"
    /\ calls' = Append(calls, [fn |-> "load_main_module", arg |-> <<main_module_url>>])
    /\ \E load_ok \in BOOLEAN :
          IF load_ok
          THEN /\ pc' = "constructed"
               /\ new_result' = OkSelf
               /\ self' = Self(opts)
          ELSE Abort(NewErr(<<"load_main_module">>))
    /\ UNCHANGED <<run_vars, op_state, main_module_url, root_cert_store, env_store>>

(***************************************************************************)
(* Deno.env of the guest, served by sb_env from the snapshot in the store. *)
(***************************************************************************)
NotSupportedMsg == <<"NotSupported", "The operation is not supported">>

\* Deno.env.set written into the snapshot.
op_set_env_written(store, k, v) ==
    [result |-> <<>>, err |-> <<>>,
     store |-> [store EXCEPT !.vars = insert(store.vars, k, v)]]

\* Deno.env.set: refused, the snapshot untouched.
op_set_env(store, k, v) ==
    [result |-> <<>>, err |-> NotSupportedMsg, store |-> store]

\* Deno.env.get: the value in the snapshot, or undefined.
op_get_env(store, k) ==
    [result |-> IF k \in DOMAIN store.vars THEN <<store.vars[k]>> ELSE <<>>,
     err |-> <<>>, store |-> store]

\* Guest code still reachable after run has returned.
GuestCode_after_outcome == pc \in {"constructed", "running", "done"}

\* Guest code runs on a runtime that exists: from the handle's construction
\* until run, which owns it, returns and drops it.
GuestCode == pc \in {"constructed", "running"}

GuestEnvGet ==
    /\ GuestCode
    /\ \E k \in EnvNames :
          LET r == op_get_env(env_store, k)
          IN /\ env_op' = [op |-> "get", key |-> k, result |-> r.result, err |-> r.err,
                            after_set |-> env_op.after_set]
             /\ env_store' = r.store
    /\ UNCHANGED <<conf, guest, op_state, pc, now, started, fut, mod_consulted,
                   heap_breach, force_quit, reported, calls, opts, ca_store_env,
                   main_module_url, root_cert_store, new_result, spawn_op, peer,
                   self>>

GuestEnvSet ==
    /\ GuestCode
    /\ \E k \in EnvNames, v \in {"Other_Value"} :
          LET r == op_set_env(env_store, k, v)
          IN /\ env_op' = [op |-> "set", key |-> k, result |-> r.result, err |-> r.err,
                            after_set |-> TRUE]
             /\ env_store' = r.store
    /\ UNCHANGED <<conf, guest, op_state, pc, now, started, fut, mod_consulted,
                   heap_breach, force_quit, reported, calls, opts, ca_store_env,
                   main_module_url, root_cert_store, new_result, spawn_op, peer,
                   self>>

(***************************************************************************)
(* Deno.Command of the guest. The ops behind it and the bootstrap that     *)
(* withholds them from a user worker come with the extensions of           *)
(* DenoRuntime::new; the list of extensions is the same for every worker.  *)
(***************************************************************************)
\* net_access_disabled of DenoRuntime::new: the user worker's, else false.
net_access_disabled(c) == IF is_user_worker(c) THEN c.net_access_disabled ELSE FALSE

\* allow_remote_modules of DenoRuntime::new: the user worker's, else true.
allow_remote_modules(c) == IF is_user_worker(c) THEN c.allow_remote_modules ELSE TRUE

\* The extensions that decide what the guest may do, with the one argument
\* that comes from the worker's parameters.
extensions(c) ==
    <<[ext |-> "sb_core_permissions", arg |-> <<net_access_disabled(c)>>],
      [ext |-> "sb_env", arg |-> <<>>],
      [ext |-> "sb_os", arg |-> <<>>]>>

SpawnDeniedMsg ==
    <<"Spawning subprocesses is not allowed", " on Supabase Edge Runtime">>

\* Subprocesses withheld only from a user worker that has no net access.
op_spawn_sync_with_net(c, exts) ==
    IF is_user_worker(c) /\ exts[1].arg[1]
    THEN {[op |-> "spawn", err |-> SpawnDeniedMsg, spawned |-> FALSE]}
    ELSE {[op |-> "spawn", err |-> <<>>, spawned |-> TRUE]}

\* cmd.outputSync(): the answers it can give. A user worker is refused; what
\* the other roles get is not settled here.
op_spawn_sync(c, exts) ==
    IF is_user_worker(c)
    THEN {[op |-> "spawn", err |-> SpawnDeniedMsg, spawned |-> FALSE]}
    ELSE {[op |-> "spawn", err |-> SpawnDeniedMsg, spawned |-> FALSE],
          [op |-> "spawn", err |-> <<>>, spawned |-> TRUE]}

GuestSpawn ==
    /\ GuestCode
    /\ spawn_op' \in op_spawn_sync(conf, extensions(conf))
    /\ UNCHANGED <<conf, guest, op_state, pc, now, started, fut, mod_consulted,
                   heap_breach, force_quit, reported, calls, opts, ca_store_env,
                   main_module_url, root_cert_store, env_store, new_result, env_op,
                   peer, self>>

\* A constructed runtime of any role, a user worker with any parameters.
CapabilitiesInit ==
    /\ conf \in UserParameters \cup {c \in WorkerRuntimeOpts : ~is_user_worker(c)}
    /\ guest \in ConstructionGuests
    /\ op_state = new_op_state(conf)
    /\ pc = "constructed"
    /\ now = 0
    /\ started = 0
    /\ fut = "unpolled"
    /\ mod_consulted = FALSE
    /\ heap_breach = FALSE
    /\ force_quit = FALSE
    /\ reported = <<>>
    /\ opts = create_runtime(conf)
    /\ ca_store_env = Unset
    /\ main_module_url = main_module_url_of(opts)
    /\ root_cert_store = {"mozilla"}
    /\ calls = new_calls(opts)
    /\ env_store = EnvVars(guest_env_vars(opts))
    /\ new_result = OkSelf
    /\ env_op = NoEnvOp
    /\ spawn_op = NoSpawnOp
    /\ peer = NoPeer
    /\ self = Self(opts)

CapabilitiesNext == GuestSpawn \/ Run \/ Poll \/ Tick

\* What the guest of a constructed runtime may do, up to the end of its run.
Capabilities == CapabilitiesInit /\ [][CapabilitiesNext]_vars

New ==
    \/ NewMainModuleUrl
    \/ NewEszip
    \/ NewRootCertStore
    \/ NewStdio
    \/ NewModuleLoader
    \/ NewJsRuntime
    \/ NewBootstrap
    \/ NewOpState
    \/ NewLoadMainModule

LifecycleNext == New \/ Run \/ Poll \/ Tick \/ GuestEnvGet \/ GuestEnvSet

\* A runtime from its request to the end of its run.
Lifecycle == NewInit /\ [][LifecycleNext]_vars

(***************************************************************************)
(* The outcome a caller reads off the result of run.                       *)
(***************************************************************************)
Outcome(r) ==
    IF r.ok THEN "Completed"
    ELSE IF r.msg = WallClockMsg THEN "TimedOut"
    ELSE IF r.msg = SenderDroppedMsg THEN "Unknown"
    ELSE IF Len(r.msg) > Len(EventLoopPrefix)
            /\ SubSeq(r.msg, 1, Len(EventLoopPrefix)) = EventLoopPrefix THEN "Unknown"
    ELSE "ErrorThrown"

Done == pc = "done"

result == reported[1]

\* What the guest delivers, and what run has seen of it when it decides.
UserT == conf.worker_timeout_ms

Late == elapsed(duration(conf), started, now)

LoopAnswered == guest.loop # "pending" /\ now - started >= guest.loop_at

LoopFaulted == LoopAnswered /\ guest.loop = "err"

Delivered == mod_result(conf, guest)

(***************************************************************************)
(* C1. Every run reports exactly one outcome: never two, one exactly when  *)
(* the run is done, and once it is done nothing of the run changes.        *)
(***************************************************************************)
C1_ExactlyOneOutcome ==
    /\ [](Len(reported) <= 1 /\ (Done <=> Len(reported) = 1))
    /\ [][Done => UNCHANGED vars]_vars

\* The race is decided with both sides ready: the guest has answered and
\* the deadline has elapsed.
C1_Witness ==
    Done /\ is_user_worker(conf) /\ Late /\ LoopAnswered /\ Len(reported) = 1

(***************************************************************************)
(* C2. A force-quit signal delivered while run is in progress makes the    *)
(* run end with the outcome ForceQuit.                                     *)
(***************************************************************************)
C2_ForceQuitPreempts ==
    Done /\ force_quit => Outcome(result) = "ForceQuit"

(***************************************************************************)
(* C3. With no force-quit, the outcome follows the priority deadline >     *)
(* scheduler fault > evaluation result: a user worker whose deadline has   *)
(* elapsed when run decides ends with the deadline outcome, otherwise a    *)
(* faulted event loop ends it with Unknown (timeouts above zero).          *)
(***************************************************************************)
C3_PriorityOrder ==
    Done /\ ~force_quit /\ (is_user_worker(conf) => UserT > 0) =>
        IF is_user_worker(conf) /\ Late
        THEN Outcome(result) \in {"TimedOut", "ModuleEvaluationTimedOut"}
        ELSE LoopFaulted => Outcome(result) = "Unknown"

C5_DeadlineUserOnly ==
    Done =>
        /\ result = Err(WallClockMsg) =>
               is_user_worker(conf) /\ now - started >= UserT
        /\ ~is_user_worker(conf) =>
               /\ Outcome(result) # "TimedOut"
               /\ LoopAnswered
               /\ result \in {Ok, Err(EventLoopPrefix \o guest.err),
                              Err(guest.err), Err(SenderDroppedMsg)}

\* A main worker completes at the end of the clock, past every timeout.
C5_Witness ==
    Done /\ is_main_worker(conf) /\ now = MaxTime /\ result = Ok

(***************************************************************************)
(* C6. A user worker whose event loop becomes idle while the root module's *)
(* top-level promise never settles ends with ModuleEvaluationTimedOut, not *)
(* before worker_timeout_ms has passed.                                    *)
(***************************************************************************)
C6_ModuleEvaluationTimedOut ==
    Done /\ is_user_worker(conf) /\ guest.loop = "ok" /\ Delivered.kind = "pending" =>
        Outcome(result) = "ModuleEvaluationTimedOut" /\ now - started >= UserT

(***************************************************************************)
(* C7. A user worker (timeout above zero) whose guest settles with         *)
(* success: settling strictly                                              *)
(* before the timeout gives Completed, settling only after it gives        *)
(* TimedOut.                                                               *)
(***************************************************************************)
C7_SettleVersusDeadline ==
    /\ Done /\ is_user_worker(conf) /\ UserT > 0
    /\ guest.loop = "ok" /\ Delivered.kind = "ok"
    =>  /\ guest.loop_at < UserT => Outcome(result) = "Completed"
        /\ guest.loop_at > UserT => Outcome(result) = "TimedOut"

(***************************************************************************)
(* C8. A user worker whose guest breaches the heap limit (and whose event  *)
(* loop is otherwise idle at once) ends with HeapLimitReached.             *)
(***************************************************************************)
C8_HeapLimitReached ==
    /\ Done /\ is_user_worker(conf) /\ heap_breach
    /\ guest.loop = "ok" /\ guest.loop_at = 0
    => Outcome(result) = "HeapLimitReached"

(***************************************************************************)
(* C9. A user worker with memory_limit_mb = M whose guest only allocates   *)
(* A MiB: the run succeeds if A < M and fails with the allocation failure  *)
(* "Array buffer allocation failed" if A > M, for every worker_timeout_ms  *)
(* and events channel; and for a guest that takes time to become idle the  *)
(* same holds of every result other than the timeout.                      *)
(***************************************************************************)
AllocationResult(a, m) ==
    IF a < m THEN {Ok} ELSE IF a > m THEN {Err(RangeErrorMsg)} ELSE {Ok, Err(RangeErrorMsg)}

C10_UnknownVersusErrorThrown ==
    Done /\ result # Err(WallClockMsg) =>
        /\ LoopFaulted =>
               /\ Outcome(result) = "Unknown"
               /\ result.msg = EventLoopPrefix \o guest.err
               /\ ~mod_consulted
        /\ LoopAnswered /\ guest.loop = "ok" /\ Delivered.kind = "err" =>
               /\ Outcome(result) = "ErrorThrown"
               /\ result.msg = Delivered.err
               /\ mod_consulted

\* The event loop has faulted for a guest whose evaluation is rejected too.
C10_Witness ==
    /\ Done /\ LoopFaulted /\ guest.mod = "err"
    /\ Outcome(result) = "Unknown" /\ ~mod_consulted

(***************************************************************************)
(* Two constructions in one process, given equal requests, while the       *)
(* process environment changes under them.                                 *)
(***************************************************************************)
\* What the construction made of DENO_TLS_CA_STORE: the store it built, or
\* the error of an unknown name; "none" before that step, and when the
\* construction ended for another reason.
CertsOutcome ==
    IF pc \notin {"new", "eszip", "root_cert_store", "failed"}
    THEN [kind |-> "Ok", store |-> root_cert_store]
    ELSE IF pc = "failed" /\ new_result.kind = "Err" /\ new_result.msg # <<>>
            /\ new_result.msg[1] = "Unknown certificate store \""
    THEN [kind |-> "Err", store |-> {}]
    ELSE [kind |-> "none", store |-> {}]

\* std::env::set_var("DENO_TLS_CA_STORE", ..) or remove_var by any thread of
\* the process.
SetVar ==
    /\ \E e \in CaStoreEnvs : e # ca_store_env /\ ca_store_env' = e
    /\ UNCHANGED <<conf, guest, op_state, pc, now, started, fut, mod_consulted,
                   heap_breach, force_quit, reported, calls, opts, main_module_url,
                   root_cert_store, env_store, new_result, env_op, spawn_op, peer,
                   self>>

\* DenoRuntime::new called once more with an equal request, the first
\* construction having come to its end.
NewAgain ==
    /\ pc \in {"constructed", "failed"}
    /\ ~peer.made
    /\ peer' = [made |-> TRUE, certs |-> CertsOutcome,
                main_module_url |-> main_module_url, env_store |-> env_store]
    /\ pc' = "new"
    /\ op_state' = {}
    /\ main_module_url' = "unset"
    /\ root_cert_store' = EmptyStore
    /\ calls' = <<>>
    /\ env_store' = NoEnvVars
    /\ new_result' = NotReturned
    /\ self' = NoSelf
    /\ UNCHANGED <<conf, guest, now, started, fut, mod_consulted, heap_breach,
                   force_quit, reported, opts, ca_store_env, env_op, spawn_op>>

ConcurrentInit ==
    /\ NewInit
    /\ opts.env_vars \in {EmptyEnv, [x \in {"Supa_Test"} |-> "Supa_Value"]}
    /\ opts.maybe_entrypoint \in {"None", "file"}
    /\ ~opts.maybe_module_code
    /\ opts.events_rx = is_events_worker(conf)
    /\ guest.mod = "ok"
    /\ ca_store_env = Unset

ConcurrentNext == New \/ SetVar \/ NewAgain

Concurrent == ConcurrentInit /\ [][ConcurrentNext]_vars

(***************************************************************************)
(* Views of a construction: what the call log and the result show.         *)
(***************************************************************************)
\* The positions in the call log of the calls of one function.
CallsOf(fn) == {i \in DOMAIN calls : calls[i].fn = fn}

\* The positions of the puts of one key.
PutsOf(key) == {i \in DOMAIN calls : calls[i] = put(key)}

\* Every position of the first set lies before every position of the second.
Before(is, js) == \A i \in is, j \in js : i < j

\* The code sources the construction has drawn on so far: the supplied
\* bundle handed to the loader, the inline source or the file path handed to
\* generate_binary_eszip.
CodeSources ==
    {"bundle" : i \in {j \in CallsOf("create_module_loader_for_standalone_from_eszip_kind") :
                          calls[j].arg = <<"maybe_eszip">>}}
    \cup {"inline" : i \in {j \in CallsOf("generate_binary_eszip") :
                               calls[j].arg = <<"maybe_module_code">>}}
    \cup {"filesystem" : i \in {j \in CallsOf("generate_binary_eszip") :
                                   calls[j].arg = <<"None">>}}

\* DenoRuntime::new returned a handle.
Constructed == new_result = OkSelf

(***************************************************************************)
(* C11: of a request's code sources at most one is honoured, the supplied  *)
(* bundle first; the inline source is used when it is supplied with        *)
(* neither a bundle nor an explicit entrypoint, and the filesystem is used *)
(* when no bundle is supplied and the inline source is missing or an       *)
(* explicit entrypoint is given.                                           *)
(***************************************************************************)
C11_CodeSourcePrecedence ==
    Constructed =>
        /\ Cardinality(CodeSources) = 1
        /\ opts.maybe_eszip => CodeSources = {"bundle"}
        /\ (~opts.maybe_eszip /\ opts.maybe_module_code /\ opts.maybe_entrypoint = "None")
               => CodeSources = {"inline"}
        /\ (~opts.maybe_eszip /\ (~opts.maybe_module_code \/ opts.maybe_entrypoint # "None"))
               => CodeSources = {"filesystem"}

\* C11 as stated: the inline source is used whenever it is supplied and no
\* bundle is, and the filesystem only when neither is supplied.
C11_InlineWheneverSupplied ==
    Constructed =>
        /\ Cardinality(CodeSources) = 1
        /\ opts.maybe_eszip => CodeSources = {"bundle"}
        /\ (~opts.maybe_eszip /\ opts.maybe_module_code) => CodeSources = {"inline"}
        /\ CodeSources = {"filesystem"} => (~opts.maybe_eszip /\ ~opts.maybe_module_code)

\* A handle built from the filesystem although inline source was supplied,
\* because an explicit entrypoint came with it.
C11_Witness ==
    /\ Constructed
    /\ opts.maybe_module_code /\ ~opts.maybe_eszip /\ opts.maybe_entrypoint = "file"
    /\ CodeSources = {"filesystem"}

(***************************************************************************)
(* C12: with a bundle supplied, construction makes no bundling call and    *)
(* loads no import map; without one it makes the bundling call once, never *)
(* twice, and in every lifecycle the bundle is handed to the module loader *)
(* once, after it was made.                                                *)
(***************************************************************************)
C12_BundlingOncePerRequest ==
    LET bundling == CallsOf("generate_binary_eszip")
        consuming == CallsOf("create_module_loader_for_standalone_from_eszip_kind")
    IN /\ opts.maybe_eszip => (bundling = {} /\ CallsOf("load_import_map") = {})
       /\ Cardinality(bundling) <= 1
       /\ Cardinality(consuming) <= 1
       /\ Before(bundling, consuming)
       /\ consuming # {} => Cardinality(bundling) = (IF opts.maybe_eszip THEN 0 ELSE 1)
       /\ Constructed => Cardinality(consuming) = 1

\* A finished run of a runtime that bundled its own code, once.
C12_Witness ==
    /\ pc = "done"
    /\ ~opts.maybe_eszip
    /\ Cardinality(CallsOf("generate_binary_eszip")) = 1
    /\ Cardinality(CallsOf("create_module_loader_for_standalone_from_eszip_kind")) = 1

(***************************************************************************)
(* C13: a fatal condition of the construction ends it without a handle, by *)
(* a returned error or by a panic; a handle is returned only by a          *)
(* construction whose every step was made and succeeded.                   *)
(***************************************************************************)
C13_NoDegradedHandle ==
    /\ pc = "failed" <=> new_result.kind \in {"Err", "panic"}
    /\ pc \in {"constructed", "running", "done"} <=> Constructed
    /\ Constructed =>
          /\ Len(calls) >= Len(new_calls(opts))
          /\ SubSeq(calls, 1, Len(new_calls(opts))) = new_calls(opts)
          /\ main_module_url = main_module_url_of(opts)
          /\ root_cert_store # EmptyStore \/ ca_stores(ca_store_env) = <<>>
          /\ new_op_state(conf) \subseteq op_state
          /\ env_store.put

\* The fatal conditions C13 lists: all but the missing event receiver.
ListedFatalCondition ==
    /\ pc = "failed"
    /\ new_result # Panic(<<"called Option::unwrap() on a None value">>)

\* C13 as stated: every fatal condition is returned to the caller as a
\* construction failure.
C13_FailureReturned == ListedFatalCondition => new_result.kind = "Err"

\* The bootstrap script failed and the construction panicked.
C13_Witness ==
    /\ pc = "failed"
    /\ new_result = Panic(<<"Failed to execute bootstrap script">>)
    /\ CallsOf("load_main_module") = {}

(***************************************************************************)
(* C14: the bootstrap script is executed once per isolate, after the       *)
(* isolate is created and before the main module is loaded and evaluated;  *)
(* its second argument is true exactly for a user worker, its third        *)
(* exactly for an events worker, never both.                               *)
(***************************************************************************)
C14_BootstrapOnceAndFirst ==
    LET created == CallsOf("JsRuntime::new")
        bootstrapped == CallsOf("execute_script")
        loaded == CallsOf("load_main_module")
        evaluated == CallsOf("mod_evaluate")
    IN /\ Cardinality(bootstrapped) <= 1
       /\ Before(created, bootstrapped)
       /\ Before(bootstrapped, loaded \cup evaluated)
       /\ Before(loaded, evaluated)
       /\ (loaded \cup evaluated) # {} => Cardinality(bootstrapped) = 1
       /\ bootstrapped # {} => Cardinality(created) = 1
       /\ evaluated # {} => Cardinality(loaded) = 1
       /\ pc \in {"running", "done"} => Cardinality(loaded) = 1
       /\ \A i \in bootstrapped :
             /\ calls[i].arg[2] = "true" <=> conf.tag = "UserWorker"
             /\ calls[i].arg[3] = "true" <=> conf.tag = "EventsWorker"
             /\ calls[i].arg[2] \in {"true", "false"}
             /\ calls[i].arg[3] \in {"true", "false"}
             /\ ~(calls[i].arg[2] = "true" /\ calls[i].arg[3] = "true")

\* An events worker that ran: bootstrapped with the events flag, then loaded,
\* then evaluated.
C14_Witness ==
    /\ pc = "done"
    /\ conf.tag = "EventsWorker"
    /\ \E i \in CallsOf("execute_script") :
          /\ calls[i].arg[3] = "true"
          /\ \E j \in CallsOf("load_main_module"), k \in CallsOf("mod_evaluate") :
                i < j /\ j < k

(***************************************************************************)
(* C15: the pool-dispatch sender is in the store exactly when the worker   *)
(* is a main worker and run has started.                                   *)
(***************************************************************************)
C15_PoolSenderMainAtRun ==
    "UnboundedSender<UserWorkerMsgs>" \in op_state
        <=> (conf.tag = "MainWorker" /\ pc \in {"running", "done"})

\* A main worker at the start of its run, the sender in its store.
C15_Witness ==
    /\ conf.tag = "MainWorker"
    /\ pc = "running"
    /\ fut = "unpolled"
    /\ "UnboundedSender<UserWorkerMsgs>" \in op_state

(***************************************************************************)
(* C16: over construction and run no key of the store is put twice; a      *)
(* constructed runtime has its environment snapshot in the store; and the  *)
(* entries of the construction are put before the main module is loaded    *)
(* and evaluated.                                                          *)
(***************************************************************************)
ConstructionScoped ==
    {"UnboundedReceiver<WorkerEventWithMetadata>",
     "UnboundedSender<WorkerEventWithMetadata>", "EventMetadata", "EnvVars"}

C16_WriteOnce ==
    /\ \A i \in CallsOf("put"), j \in CallsOf("put") : calls[i] = calls[j] => i = j
    /\ op_state = {calls[i].arg[1] : i \in CallsOf("put")}
    /\ Constructed => (Cardinality(PutsOf("EnvVars")) = 1 /\ env_store.put)
    /\ \A key \in ConstructionScoped :
          Before(PutsOf(key), CallsOf("load_main_module") \cup CallsOf("mod_evaluate"))

\* A user worker with an events channel after its run: four entries, each
\* written once.
C16_Witness ==
    /\ pc = "done"
    /\ conf.tag = "UserWorker" /\ conf.events_msg_tx
    /\ Cardinality(CallsOf("put")) = 4
    /\ Cardinality(op_state) = 4

(***************************************************************************)
(* C17: the snapshot of a user worker holds SB_EXECUTION_ID with the       *)
(* worker's key as a string, or the empty string without a key, whatever   *)
(* value of that name was supplied, and the guest reads it so; for a main  *)
(* or events worker SB_EXECUTION_ID is in the snapshot only as supplied.   *)
(***************************************************************************)
ExecutionKey == IF conf.key = None THEN "" ELSE uuid_to_string(conf.key[1])

C17_ExecutionIdInjected ==
    env_store.put =>
        /\ conf.tag = "UserWorker" =>
              /\ "SB_EXECUTION_ID" \in DOMAIN env_store.vars
              /\ env_store.vars["SB_EXECUTION_ID"] = ExecutionKey
              /\ (env_op.op = "get" /\ env_op.key = "SB_EXECUTION_ID")
                     => env_op.result = <<ExecutionKey>>
        /\ conf.tag # "UserWorker" =>
              /\ "SB_EXECUTION_ID" \in DOMAIN env_store.vars
                     <=> "SB_EXECUTION_ID" \in DOMAIN opts.env_vars
              /\ "SB_EXECUTION_ID" \in DOMAIN env_store.vars
                     => env_store.vars["SB_EXECUTION_ID"] = opts.env_vars["SB_EXECUTION_ID"]

\* A user worker with a key, given another SB_EXECUTION_ID, whose guest reads
\* the key.
C17_Witness ==
    /\ conf.tag = "UserWorker"
    /\ conf.key = Some(1)
    /\ "SB_EXECUTION_ID" \in DOMAIN opts.env_vars
    /\ opts.env_vars["SB_EXECUTION_ID"] = "Supa_Value"
    /\ env_op.op = "get" /\ env_op.key = "SB_EXECUTION_ID"
    /\ env_op.result = <<"00000000-0000-0000-0000-000000000001">>

(***************************************************************************)
(* C18: besides SB_EXECUTION_ID the snapshot of a user worker holds the    *)
(* supplied variables and nothing else, and a variable not supplied reads  *)
(* as absent; the snapshot of a main worker is the supplied mapping, and a *)
(* supplied variable reads with its supplied value.                        *)
(***************************************************************************)
\* What a read of k answers when the snapshot is the supplied mapping.
Supplied(k) == IF k \in DOMAIN opts.env_vars THEN <<opts.env_vars[k]>> ELSE <<>>

C18_OnlySuppliedBesidesExecutionId ==
    env_store.put =>
        /\ conf.tag = "UserWorker" =>
              /\ DOMAIN env_store.vars = DOMAIN opts.env_vars \cup {"SB_EXECUTION_ID"}
              /\ \A k \in DOMAIN opts.env_vars \ {"SB_EXECUTION_ID"} :
                    env_store.vars[k] = opts.env_vars[k]
              /\ (env_op.op = "get" /\ env_op.key # "SB_EXECUTION_ID")
                     => env_op.result = Supplied(env_op.key)
        /\ conf.tag = "MainWorker" =>
              /\ env_store.vars = opts.env_vars
              /\ env_op.op = "get" => env_op.result = Supplied(env_op.key)

\* C18 as stated: the snapshot of a user worker is empty when nothing is
\* supplied, and whatever is not supplied reads as absent.
C18_UserSnapshotOnlySupplied ==
    env_store.put =>
        /\ conf.tag = "UserWorker" =>
              /\ opts.env_vars = EmptyEnv => env_store.vars = EmptyEnv
              /\ env_op.op = "get" => env_op.result = Supplied(env_op.key)
        /\ conf.tag = "MainWorker" =>
              /\ env_store.vars = opts.env_vars
              /\ env_op.op = "get" => env_op.result = Supplied(env_op.key)

\* A user worker given no variables: its snapshot holds SB_EXECUTION_ID alone
\* and its guest reads Supa_Test as absent.
C18_Witness ==
    /\ conf.tag = "UserWorker"
    /\ opts.env_vars = EmptyEnv
    /\ DOMAIN env_store.vars = {"SB_EXECUTION_ID"}
    /\ env_op.op = "get" /\ env_op.key = "Supa_Test" /\ env_op.result = <<>>

(***************************************************************************)
(* C19: Deno.env.set is answered, for every role, with NotSupported: The   *)
(* operation is not supported; the snapshot stays what construction put,   *)
(* and every read, also after set attempts, returns the value of the       *)
(* construction.                                                           *)
(***************************************************************************)
C19_EnvSetNotSupported ==
    /\ env_op.op = "set" =>
          /\ env_op.err = <<"NotSupported", "The operation is not supported">>
          /\ env_op.result = <<>>
    /\ env_store.put => env_store.vars = guest_env_vars(opts)
    /\ env_op.op = "get" =>
          /\ env_op.err = <<>>
          /\ env_op.result = IF env_op.key \in DOMAIN guest_env_vars(opts)
                             THEN <<guest_env_vars(opts)[env_op.key]>> ELSE <<>>

\* A main worker's guest reads a supplied variable after a set attempt and
\* gets the supplied value.
C19_Witness ==
    /\ conf.tag = "MainWorker"
    /\ env_op.op = "get" /\ env_op.after_set
    /\ env_op.key = "Supa_Test"
    /\ "Supa_Test" \in DOMAIN opts.env_vars
    /\ env_op.result = <<"Supa_Value">>

(***************************************************************************)
(* C20: an events worker constructed without its event receiver gets no    *)
(* handle and never runs; with the receiver, it is put into the store      *)
(* before the main module is loaded and evaluated; for a user worker the   *)
(* event sender and the execution metadata are in the store together or    *)
(* not at all, and together exactly when the channel is configured.        *)
(***************************************************************************)
C20_EventChannels ==
    /\ (conf.tag = "EventsWorker" /\ ~opts.events_rx) =>
          /\ ~Constructed
          /\ pc \notin {"constructed", "running", "done"}
          /\ CallsOf("load_main_module") = {}
          /\ reported = <<>>
    /\ (conf.tag = "EventsWorker" /\ opts.events_rx) =>
          /\ Before(PutsOf("UnboundedReceiver<WorkerEventWithMetadata>"),
                    CallsOf("load_main_module") \cup CallsOf("mod_evaluate"))
          /\ Constructed => "UnboundedReceiver<WorkerEventWithMetadata>" \in op_state
    /\ conf.tag = "UserWorker" =>
          /\ "UnboundedSender<WorkerEventWithMetadata>" \in op_state
                 <=> "EventMetadata" \in op_state
          /\ Constructed =>
                 ("EventMetadata" \in op_state <=> conf.events_msg_tx)

\* An events worker without its receiver: the construction panicked where the
\* store is filled.
C20_Witness ==
    /\ conf.tag = "EventsWorker"
    /\ ~opts.events_rx
    /\ pc = "failed"
    /\ new_result = Panic(<<"called Option::unwrap() on a None value">>)
    /\ CallsOf("execute_script") # {}

(***************************************************************************)
(* C21: a name in DENO_TLS_CA_STORE other than mozilla and system fails    *)
(* the construction; system leaves the platform's certificates in the      *)
(* store and mozilla the bundled default set; and when no store is named   *)
(* the store is the bundled default set, never empty.                      *)
(***************************************************************************)
\* The names DENO_TLS_CA_STORE gives, as a set.
NamedStores == {ca_stores(ca_store_env)[i] : i \in DOMAIN ca_stores(ca_store_env)}

\* The construction has its root cert store.
StoreBuilt == pc \notin {"new", "eszip", "root_cert_store", "failed"}

C21_TrustStoreSelection ==
    /\ NamedStores \ {"mozilla", "system"} # {} => ~StoreBuilt
    /\ StoreBuilt =>
          /\ "system" \in NamedStores => "native" \in root_cert_store
          /\ "mozilla" \in NamedStores => "mozilla" \in root_cert_store
          /\ (~ca_store_env.set \/ NamedStores = {}) => root_cert_store = {"mozilla"}

(***************************************************************************)
(* C22: whatever the parameters of a user worker, every attempt of its     *)
(* guest to spawn a subprocess is refused with Spawning subprocesses is    *)
(* not allowed, nothing is spawned, and the attempt ends neither the       *)
(* worker's run nor the host.                                              *)
(***************************************************************************)
SpawnDenied ==
    (conf.tag = "UserWorker" /\ spawn_op.op = "spawn") =>
        /\ spawn_op.err # <<>>
        /\ spawn_op.err[1] = "Spawning subprocesses is not allowed"
        /\ ~spawn_op.spawned

C22_SpawnDeniedForUser ==
    /\ []SpawnDenied
    /\ [][spawn_op' # spawn_op =>
            /\ pc' = pc
            /\ reported' = reported
            /\ new_result' = new_result
            /\ new_result.kind # "panic"]_vars

\* A user worker without net access and without remote modules whose guest
\* was refused a subprocess and went on to finish its run.
C22_Witness ==
    /\ conf.tag = "UserWorker"
    /\ conf.net_access_disabled /\ ~conf.allow_remote_modules
    /\ spawn_op.op = "spawn" /\ ~spawn_op.spawned
    /\ pc = "done"
    /\ reported = <<Ok>>

(***************************************************************************)
(* C23: a handle is run at most once (run takes it by value), and once run *)
(* has returned its result, a timeout included, no step of the guest is    *)
(* made: the future is not polled again and no guest call is served.       *)
(***************************************************************************)
C23_NoReuseNoResumption ==
    /\ [](/\ Cardinality(PutsOf("UnboundedReceiver<UnixStream>")) <= 1
          /\ Cardinality(CallsOf("mod_evaluate")) <= 1
          /\ Len(reported) <= 1)
    /\ [][(pc = "running" \/ pc = "done") => pc' # "constructed"]_vars
    /\ [][pc = "done" =>
            /\ pc' = "done"
            /\ UNCHANGED <<fut, mod_consulted, calls, op_state, env_store, env_op,
                           spawn_op, reported>>]_vars

\* A user worker's run ended by the deadline while the guest's top-level
\* promise was awaited: the awaiting future is left where it was.
C23_Witness ==
    /\ pc = "done"
    /\ conf.tag = "UserWorker"
    /\ reported = <<Err(WallClockMsg)>>
    /\ fut = "mod_result"
    /\ env_op.op # "none"

(***************************************************************************)
(* C24: what a construction comes to is decided by its request alone: of   *)
(* two constructions given equal requests, whatever happens to the process *)
(* environment between and during them, both build the same trust store or *)
(* both fail on it, both resolve the same main module and both put the     *)
(* same environment snapshot.                                              *)
(***************************************************************************)
C24_RequestDeterminesResult ==
    peer.made =>
        /\ (peer.certs.kind # "none" /\ CertsOutcome.kind # "none")
               => CertsOutcome = peer.certs
        /\ (peer.main_module_url # "unset" /\ main_module_url # "unset")
               => main_module_url = peer.main_module_url
        /\ (peer.env_store.put /\ env_store.put) => env_store = peer.env_store

(***************************************************************************)
(* C25: run answers Ok only when the event loop became idle without an     *)
(* error, the evaluation of the main module was delivered as a success     *)
(* and, for a user worker, the deadline had not elapsed; a dropped sender  *)
(* or a rejected evaluation is never answered with Ok.                     *)
(***************************************************************************)
C25_SuccessOnlyIf ==
    /\ (Done /\ reported = <<Ok>>) =>
          /\ LoopAnswered /\ guest.loop = "ok"
          /\ mod_consulted /\ Delivered.kind = "ok"
          /\ (is_user_worker(conf) /\ UserT > 0) => ~Late
    /\ (Done /\ Delivered.kind \in {"dropped", "err"}) => reported # <<Ok>>

(***************************************************************************)
(* C26: the root cert store built from valid names holds the certificates  *)
(* of every named store, whatever the order of the names: those of the     *)
(* platform when system is named, the bundled set when mozilla is named.   *)
(***************************************************************************)
\* The certificates one named store stands for.
CertificatesOf(name) == IF name = "mozilla" THEN {"mozilla"} ELSE {"native"}

C26_StoreIsUnionOfNamed ==
    (StoreBuilt /\ NamedStores \subseteq {"mozilla", "system"}) =>
        root_cert_store = UNION {CertificatesOf(name) : name \in NamedStores}

(***************************************************************************)
(* C27: the env_vars of the handle is the mapping that was supplied; it is *)
(* the snapshot in the store for a main and an events worker, and for a    *)
(* user worker the snapshot is the handle's mapping with SB_EXECUTION_ID   *)
(* set to the execution key.                                               *)
(***************************************************************************)
C27_HandleKeepsSupplied ==
    Constructed =>
        /\ self.made /\ env_store.put
        /\ self.env_vars = opts.env_vars
        /\ conf.tag # "UserWorker" => env_store.vars = self.env_vars
        /\ conf.tag = "UserWorker" =>
              env_store.vars = insert(self.env_vars, "SB_EXECUTION_ID", ExecutionKey)

\* C27 as stated: the handle's env_vars is the snapshot in the store.
C27_HandleEqualsSnapshot ==
    Constructed => (self.made /\ env_store.put /\ self.env_vars = env_store.vars)

\* A user worker given Supa_Test alone: the handle holds it alone, the store
\* holds SB_EXECUTION_ID besides.
C27_Witness ==
    /\ Constructed
    /\ conf.tag = "UserWorker"
    /\ DOMAIN self.env_vars = {"Supa_Test"}
    /\ DOMAIN env_store.vars = {"Supa_Test", "SB_EXECUTION_ID"}

====
